---- MODULE Spec2Model ----
(***************************************************************************)
(* HaircutBot (src/main.py): a Telegram handler that, on the keyword       *)
(* "haircut", walks a booking page with a headless browser and replies     *)
(* with the advertised slots.                                              *)
(*                                                                         *)
(* Texts are sequences of one-character strings; the fixed messages of     *)
(* the program are one-token sequences.  The booking page and the browser  *)
(* are the environment: every probe of the page is a nondeterministic      *)
(* choice among the outcomes the call can have (a text, an empty text, an  *)
(* exception).                                                             *)
(***************************************************************************)
EXTENDS Integers, Sequences, FiniteSets, TLC

\* ------------------------------------------------------------- settings
DAYS_TO_CHECK == 7

\* ------------------------------------------------------------- bounds
\* Book controls the page can show.
MaxServices == 2
\* (service, date label) pairs for which the page offers times in one scrape.
MaxSlotDays == 7

\* ------------------------------------------------------------- texts
None == <<"<None>">>

IsSpace(c) == c \in {" ", "\n", "\t"}

IsDigit(c) == c \in {"0", "1", "2", "3", "4", "5", "6", "7", "8", "9"}

\* Code points of the characters time texts are made of (ord).
Code(c) ==
  CASE c = "\t" -> 9
    [] c = "\n" -> 10
    [] c = " " -> 32
    [] c = "0" -> 48
    [] c = "1" -> 49
    [] c = "2" -> 50
    [] c = "3" -> 51
    [] c = "4" -> 52
    [] c = "5" -> 53
    [] c = "6" -> 54
    [] c = "7" -> 55
    [] c = "8" -> 56
    [] c = "9" -> 57
    [] c = ":" -> 58
    [] OTHER -> 100

\* str.lower on one character.
LowerChar(c) ==
  CASE c = "H" -> "h"
    [] c = "A" -> "a"
    [] c = "I" -> "i"
    [] c = "R" -> "r"
    [] c = "C" -> "c"
    [] c = "U" -> "u"
    [] c = "T" -> "t"
    [] OTHER -> c

Lower(s) == [k \in 1..Len(s) |-> LowerChar(s[k])]

RECURSIVE LStrip(_)
LStrip(s) ==
  IF s = <<>> THEN <<>>
  ELSE IF IsSpace(Head(s)) THEN LStrip(Tail(s)) ELSE s

RECURSIVE RStrip(_)
RStrip(s) ==
  IF s = <<>> THEN <<>>
  ELSE IF IsSpace(s[Len(s)]) THEN RStrip(SubSeq(s, 1, Len(s) - 1)) ELSE s

\* str.strip
Strip(s) == RStrip(LStrip(s))

\* str.replace("\n", " ")
ReplaceNewlines(s) == [k \in 1..Len(s) |-> IF s[k] = "\n" THEN " " ELSE s[k]]

\* TIME_RE = ^\d{1,2}:\d{2}$ matched against a stripped text.
TIME_RE(s) ==
  \/ /\ Len(s) = 4
     /\ IsDigit(s[1]) /\ s[2] = ":" /\ IsDigit(s[3]) /\ IsDigit(s[4])
  \/ /\ Len(s) = 5
     /\ IsDigit(s[1]) /\ IsDigit(s[2]) /\ s[3] = ":"
     /\ IsDigit(s[4]) /\ IsDigit(s[5])

\* Python's < on str: lexicographic by code point, a proper prefix is smaller.
RECURSIVE StrLess(_, _)
StrLess(a, b) ==
  IF b = <<>> THEN FALSE
  ELSE IF a = <<>> THEN TRUE
  ELSE IF Code(Head(a)) < Code(Head(b)) THEN TRUE
  ELSE IF Code(Head(a)) > Code(Head(b)) THEN FALSE
  ELSE StrLess(Tail(a), Tail(b))

SeqToSet(s) == {s[k] : k \in 1..Len(s)}

RECURSIVE SortSet(_)
SortSet(S) ==
  IF S = {} THEN <<>>
  ELSE LET m == CHOOSE x \in S : \A y \in S \ {x} : StrLess(x, y)
       IN <<m>> \o SortSet(S \ {m})

\* sorted(set(times))
SortedSet(ts) == SortSet(SeqToSet(ts))

\* sep.join(parts)
RECURSIVE Join(_, _)
Join(sep, parts) ==
  IF parts = <<>> THEN <<>>
  ELSE IF Len(parts) = 1 THEN parts[1]
  ELSE parts[1] \o sep \o Join(sep, Tail(parts))

\* ------------------------------------------------------------- fixed texts
HAIRCUT == <<"h", "a", "i", "r", "c", "u", "t">>
HELP_TEXT == <<"Hi! Send me: haircut">>
ACK == <<"One moment-checking the Standby Haircuts page...">>
PROMPT == <<"Send haircut and I'll check Standby Haircuts availability for you.">>
NO_SERVICES == <<"I couldn't find any services to check in the Standby Haircuts category right now.">>
NO_TIMES == <<"No available times found right now in Standby Haircuts.">>
HEADER == <<"Standby Haircuts availability:">>
FAILURE == <<"Sorry-something went wrong while checking the page. Please try again in a minute.">>

\* The labelled controls of the advance, in the order of the for loop.
NEXT_LABELS == <<"Next day", "Next", ">", ">>", "->">>

\* ------------------------------------------------------------- inputs
Raise == <<"<exception>">>

\* update.message.text of the inbound updates.
Updates ==
  { [kind |-> "command", text |-> <<"/", "s", "t", "a", "r", "t">>],
    [kind |-> "text", text |-> <<" ", "H", "a", "i", "r", "C", "U", "T", "\n">>],
    [kind |-> "text", text |-> <<"h", "e", "l", "l", "o">>],
    [kind |-> "text", text |-> <<"h", "a", "i", "r", " ", "c", "u", "t">>],
    [kind |-> "text", text |-> <<"h", "a", "i", "r", "c", "u", "t", "s">>],
    [kind |-> "text", text |-> <<" ">>] }

\* strftime("%Y-%m-%d") of the days from the day the scrape runs.
IsoDates ==
  << "2026-11-03", "2026-11-04", "2026-11-05", "2026-11-06", "2026-11-07",
     "2026-11-08", "2026-11-09", "2026-11-10", "2026-11-11", "2026-11-12",
     "2026-11-13", "2026-11-14", "2026-11-15", "2026-11-16", "2026-11-17",
     "2026-11-18" >>

\* inner_text() of the title element of a card, or the exception it raises.
TitleReadings == { <<" ", "C", "u", "t", " ">>, Raise }

\* inner_text() of the three date-label selectors: none of them has a text ...
NoLabel == { <<Raise, Raise, Raise>>, <<<<" ">>, Raise, <<"\n">>>> }

\* ... or the page shows the label "Mon 3".
SomeLabel ==
  { <<Raise, <<" ">>, <<"M", "o", "n", "\n", "3", " ">>>>,
    <<<<"M", "o", "n", " ", "3">>, <<"T", "u", "e", " ", "4">>, Raise>> }

\* inner_text() of the time buttons of one visit, in document order.
ButtonsA ==
  << <<"9", ":", "1", "5">>, <<" ", "9", ":", "1", "5", "\n">>,
     <<"1", "0", ":", "0", "0">>, <<"1", "2", ":", "3">> >>

ButtonsB ==
  << <<"0", "9", ":", "1", "5">>, <<"0", "9", ":", "1", "5">>,
     <<"0", "8", ":", "0", "5">> >>

\* What one visit of a day shows: the label selectors, the time buttons, and
\* how many of the buttons are read before the read raises (all: it does not).
PageViews ==
  [labels : NoLabel, buttons : {ButtonsA}, readable : {0, 3, 4}]
    \cup [labels : NoLabel \cup SomeLabel, buttons : {<<>>}, readable : {0}]
    \cup [labels : SomeLabel, buttons : {ButtonsA}, readable : {4}]
    \cup [labels : SomeLabel, buttons : {ButtonsB}, readable : {0, 3}]

\* The calendar of the first card is the long one; the cards after it show
\* times only on a day whose label the page renders.
ViewsOf(idx) ==
  IF idx = 0 THEN PageViews
  ELSE {v \in PageViews : v.labels \in SomeLabel \/ v.buttons = <<>>}

\* ------------------------------------------------------------- state
VARIABLES
  update,         \* the inbound update
  pc,             \* position in message_router / scrape_standby_times
  text,           \* message_router: text
  replies,        \* the reply_text calls made, in order
  scrapeCalls,    \* invocations of scrape_standby_times
  msg,            \* value returned by scrape_standby_times
  path,           \* how scrape_standby_times ended
  pw,             \* the async_playwright context: none, started, stopped
  browser,        \* none, open, closed
  launches,       \* calls of p.chromium.launch
  closeCalls,     \* calls of browser.close
  count,          \* number of Book buttons counted
  i,              \* index of the service loop
  results,        \* list of (service_title, per_service)
  walked,         \* per service handled so far: clicked, labels as first recorded
  service_title,
  per_service,    \* dict, in insertion order: sequence of [d, t]
  seen_dates,
  attempts,
  date_text,
  date_str,
  times,
  firstSeen,      \* labels of this walk in the order they were first recorded
  moved,
  nxt,            \* index in NEXT_LABELS of the control to try
  today           \* datetime.now().date(), in days since the scrape began

vars ==
  << update, pc, text, replies, scrapeCalls, msg, path, pw, browser, launches,
     closeCalls, count, i, results, walked, service_title, per_service,
     seen_dates, attempts, date_text, date_str, times, firstSeen, moved, nxt,
     today >>

routerVars == << update, text, replies, scrapeCalls >>
browserVars == << pw, browser, launches, closeCalls >>
loopVars == << count, i, results, walked >>
dayVars == << date_text, date_str, times >>
walkVars ==
  << service_title, per_service, seen_dates, attempts, dayVars, firstSeen,
     moved, nxt, today >>

Init ==
  /\ update \in Updates
  /\ pc = "recv"
  /\ text = None
  /\ replies = <<>>
  /\ scrapeCalls = 0
  /\ msg = None
  /\ path = "none"
  /\ pw = "none"
  /\ browser = "none"
  /\ launches = 0
  /\ closeCalls = 0
  /\ count = 0
  /\ i = 0
  /\ results = <<>>
  /\ walked = <<>>
  /\ service_title = None
  /\ per_service = <<>>
  /\ seen_dates = {}
  /\ attempts = 0
  /\ date_text = None
  /\ date_str = None
  /\ times = <<>>
  /\ firstSeen = <<>>
  /\ moved = FALSE
  /\ nxt = 1
  /\ today = 0

\* ------------------------------------------------------------- helpers
Min(a, b) == IF a < b THEN a ELSE b

\* Mutant of Normalize: the text is lower-cased but not stripped.
NormalizeNoStrip(t) == Lower(t)

\* (update.message.text or "").strip().lower()
Normalize(t) == Lower(Strip(t))

\* text == "haircut"
IsTrigger(t) == t = HAIRCUT

\* f"Service {i+1}"
ServiceN(n) ==
  <<"S", "e", "r", "v", "i", "c", "e", " ">>
    \o << <<"1", "2", "3", "4", "5", "6", "7", "8", "9">>[n] >>

\* lines 69-73: the stripped title, or the synthetic one when the read raises.
TitleOf(reading, idx) ==
  IF reading = Raise THEN ServiceN(idx + 1) ELSE Strip(reading)

\* lines 100-113: the first selector whose stripped text is not empty.
RECURSIVE DateText(_)
DateText(cands) ==
  IF cands = <<>> THEN None
  ELSE IF Head(cands) # Raise /\ Strip(Head(cands)) # <<>>
       THEN Strip(Head(cands))
       ELSE DateText(Tail(cands))

\* Mutant of FallbackLabel: the days are counted by the visits made so far.
FallbackLabelByAttempts(now, seen) == << IsoDates[now + attempts + 1] >>

\* line 116: (now + timedelta(days=len(seen_dates))).strftime("%Y-%m-%d")
FallbackLabel(now, seen) == << IsoDates[now + Cardinality(seen) + 1] >>

\* lines 115-118
DateStr(dt, now, seen) ==
  IF dt = None THEN FallbackLabel(now, seen)
  ELSE Strip(ReplaceNewlines(dt))

\* lines 121-130: the buttons read before the read raised (after k of them),
\* stripped, those that match TIME_RE.
RECURSIVE ReadTimes(_, _)
ReadTimes(raw, k) ==
  IF k = 0 \/ raw = <<>> THEN <<>>
  ELSE LET t == Strip(Head(raw))
       IN (IF TIME_RE(t) THEN <<t>> ELSE <<>>) \o ReadTimes(Tail(raw), k - 1)

Keys(dict) == {dict[k].d : k \in 1..Len(dict)}

\* Mutant of DictSet: a key already present keeps its value (setdefault).
DictSetKeepOld(dict, key, value) ==
  IF key \in Keys(dict) THEN dict ELSE Append(dict, [d |-> key, t |-> value])

\* dict[key] = value on an insertion-ordered dict
DictSet(dict, key, value) ==
  IF key \in Keys(dict)
  THEN [k \in 1..Len(dict) |->
          IF dict[k].d = key THEN [d |-> key, t |-> value] ELSE dict[k]]
  ELSE Append(dict, [d |-> key, t |-> value])

\* dict[key]
DictGet(dict, key) == dict[CHOOSE k \in 1..Len(dict) : dict[k].d = key].t

\* lines 132-134
Record(dict, ds, ts) ==
  IF ts # <<>> THEN DictSet(dict, ds, SortedSet(ts)) ELSE dict

SeenAfter(seen, ds, ts) ==
  IF ts # <<>> THEN seen \cup {ds} ELSE seen

\* Mutant of LoopCond: the attempts ceiling is off by one.
LoopCondOffByOne(seen, att) ==
  Cardinality(seen) < DAYS_TO_CHECK /\ att <= DAYS_TO_CHECK * 2

\* line 96: the condition of the while loop
LoopCond(seen, att) ==
  Cardinality(seen) < DAYS_TO_CHECK /\ att < DAYS_TO_CHECK * 2

\* lines 176-179
TitleLine(title) == <<"* ">> \o title

DateLine(d, tlist) == <<"   - ">> \o d \o <<": ">> \o Join(<<", ">>, tlist)

\* list(days.items())[:DAYS_TO_CHECK]
Capped(days) == SubSeq(days, 1, Min(Len(days), DAYS_TO_CHECK))

\* Mutant of ServiceLines: the test of line 174 is missing.
ServiceLinesKeepEmpty(title, days) ==
  <<TitleLine(title)>>
    \o [k \in 1..Len(Capped(days)) |-> DateLine(days[k].d, days[k].t)]

ServiceLines(title, days) ==
  IF days = <<>> THEN <<>>
  ELSE <<TitleLine(title)>>
         \o [k \in 1..Len(Capped(days)) |-> DateLine(days[k].d, days[k].t)]

RECURSIVE AllLines(_)
AllLines(res) ==
  IF res = <<>> THEN <<>>
  ELSE ServiceLines(Head(res).title, Head(res).days) \o AllLines(Tail(res))

\* Mutant of FormatMessage: any_slots is true as soon as a service was walked.
FormatMessageAnyService(res) ==
  IF res = <<>>
  THEN NO_TIMES
  ELSE HEADER \o <<"\n">> \o Join(<<"\n">>, AllLines(res))

\* lines 170-184
FormatMessage(res) ==
  IF \A k \in 1..Len(res) : res[k].days = <<>>
  THEN NO_TIMES
  ELSE HEADER \o <<"\n">> \o Join(<<"\n">>, AllLines(res))

\* (service, date) pairs recorded so far in this scrape.
RECURSIVE SlotDays(_)
SlotDays(res) == IF res = <<>> THEN 0 ELSE Len(Head(res).days) + SlotDays(Tail(res))

\* ------------------------------------------------------------- handlers
\* start_cmd, lines 202-203
StartCmd ==
  /\ pc = "recv"
  /\ update.kind = "command"
  /\ replies' = Append(replies, HELP_TEXT)
  /\ pc' = "done"
  /\ UNCHANGED << update, text, scrapeCalls, msg, path >>
  /\ UNCHANGED << browserVars, loopVars, walkVars >>

\* message_router, lines 206-208 and 211-212
RouterReceive ==
  /\ pc = "recv"
  /\ update.kind = "text"
  /\ text' = Normalize(update.text)
  /\ IF IsTrigger(text')
     THEN /\ replies' = Append(replies, ACK)
          /\ pc' = "call"
     ELSE /\ replies' = Append(replies, PROMPT)
          /\ pc' = "done"
  /\ UNCHANGED << update, scrapeCalls, msg, path >>
  /\ UNCHANGED << browserVars, loopVars, walkVars >>

\* message_router line 209 entering scrape_standby_times, line 29
ScrapeEnter ==
  /\ pc = "call"
  /\ scrapeCalls' = scrapeCalls + 1
  /\ pw' = "started"
  /\ pc' = "launch"
  /\ UNCHANGED << update, text, replies, msg, path, browser, launches, closeCalls >>
  /\ UNCHANGED << loopVars, walkVars >>

\* Where an exception raised at lines 30-31 goes: these lines are outside the
\* try, the exception leaves scrape_standby_times and message_router.
Unguarded == "raised"

\* line 30
Launch ==
  /\ pc = "launch"
  /\ launches' = launches + 1
  /\ \/ /\ browser' = "open"
        /\ pc' = "new_page"
        /\ UNCHANGED << pw, path >>
     \/ /\ browser' = browser
        /\ pw' = "stopped"
        /\ pc' = Unguarded
        /\ path' = Unguarded
  /\ UNCHANGED << routerVars, msg, closeCalls, loopVars, walkVars >>

\* line 31
NewPage ==
  /\ pc = "new_page"
  /\ \/ /\ pc' = "goto"
        /\ UNCHANGED << pw, path >>
     \/ /\ pw' = "stopped"
        /\ pc' = Unguarded
        /\ path' = Unguarded
  /\ UNCHANGED << routerVars, msg, browser, launches, closeCalls >>
  /\ UNCHANGED << loopVars, walkVars >>

\* A step of the try block that changes no variable of the program: it
\* completes, or raises into the handler of line 186.
Step(from, to) ==
  /\ pc = from
  /\ pc' \in {to, "except"}
  /\ UNCHANGED << routerVars, msg, path, browserVars, loopVars, walkVars >>

\* line 35
Goto == Step("goto", "cookies")

\* lines 38-43: every click is guarded, whatever happens the scrape goes on.
DismissCookies ==
  /\ pc = "cookies"
  /\ pc' = "wait_book"
  /\ UNCHANGED << routerVars, msg, path, browserVars, loopVars, walkVars >>

\* lines 46-47
WaitBook == Step("wait_book", "scroll")

\* lines 50-52
Scroll == Step("scroll", "count")

\* lines 57-58: what the scrape does when no Book button is counted
NoServices ==
  /\ msg' = NO_SERVICES
  /\ path' = "no_services"
  /\ pw' = "stopped"
  /\ pc' = "reply"
  /\ UNCHANGED << browser, closeCalls >>

\* lines 55-60
CountBook ==
  /\ pc = "count"
  /\ \/ /\ pc' = "except"
        /\ UNCHANGED << count, results, i, msg, path, pw, browser, closeCalls >>
     \/ \E c \in 0..MaxServices :
          /\ count' = c
          /\ IF c = 0
             THEN /\ NoServices
                  /\ UNCHANGED << results, i >>
             ELSE /\ results' = <<>>
                  /\ i' = 0
                  /\ pc' = "service"
                  /\ UNCHANGED << msg, path, pw, browser, closeCalls >>
  /\ UNCHANGED << routerVars, launches, walked, walkVars >>

\* after the body of the for loop of line 62
AfterService(idx) == IF idx < count THEN "service" ELSE "close"

AfterIteration(seen, att) == IF LoopCond(seen, att) THEN "read" ELSE "append"

\* lines 64-96: title, click on Book, delay, bypass probes, loop variables
OpenService ==
  /\ pc = "service"
  /\ \E reading \in TitleReadings :
       \/ \* line 79: the click raised, continue
          /\ i' = i + 1
          /\ walked' = Append(walked, [clicked |-> FALSE, order |-> <<>>])
          /\ pc' = AfterService(i + 1)
          /\ UNCHANGED walkVars
       \/ \* line 82: the delay raised
          /\ pc' = "except"
          /\ UNCHANGED << i, walked, walkVars >>
       \/ /\ service_title' = TitleOf(reading, i)
          /\ per_service' = <<>>
          /\ seen_dates' = {}
          /\ attempts' = 0
          /\ firstSeen' = <<>>
          /\ pc' = AfterIteration(seen_dates', attempts')
          /\ UNCHANGED << i, walked, dayVars, moved, nxt, today >>
  /\ UNCHANGED << routerVars, msg, path, browserVars, count, results >>

\* lines 97-137: one visit of a day, up to the start of the advance
ReadDay ==
  /\ pc = "read"
  /\ attempts' = attempts + 1
  /\ \E view \in ViewsOf(i) :
       /\ date_text' = DateText(view.labels)
       /\ date_str' = DateStr(date_text', today, seen_dates)
       /\ times' = ReadTimes(view.buttons, view.readable)
       /\ \/ times' = <<>>
          \/ date_str' \in seen_dates
          \/ SlotDays(results) + Len(per_service) < MaxSlotDays
  /\ per_service' = Record(per_service, date_str', times')
  /\ seen_dates' = SeenAfter(seen_dates, date_str', times')
  /\ firstSeen' = IF times' # <<>> /\ date_str' \notin SeqToSet(firstSeen)
                  THEN Append(firstSeen, date_str') ELSE firstSeen
  /\ moved' = FALSE
  /\ nxt' = 1
  /\ pc' = "next"
  /\ UNCHANGED << routerVars, msg, path, browserVars, loopVars >>
  /\ UNCHANGED << service_title, today >>

\* The locals of one visit are dead once the advance starts (they are assigned
\* again at lines 100, 116-118 and 121 before they are read).
DayDone ==
  /\ date_text' = None
  /\ date_str' = None
  /\ times' = <<>>

\* Mutant of AdvanceNext: the calendar cell is tried after the first labelled
\* control that fails.
AdvanceNextCellEarly ==
  /\ pc = "next"
  /\ \/ /\ moved' = TRUE
        /\ nxt' = 1
        /\ pc' = AfterIteration(seen_dates, attempts)
     \/ /\ moved' = moved
        /\ nxt' = 1
        /\ pc' = "cell"
  /\ DayDone
  /\ UNCHANGED << routerVars, msg, path, browserVars, loopVars >>
  /\ UNCHANGED << service_title, per_service, seen_dates, attempts, firstSeen, today >>

\* lines 138-144: the click on the control NEXT_LABELS[nxt]
AdvanceNext ==
  /\ pc = "next"
  /\ \/ /\ moved' = TRUE
        /\ nxt' = 1
        /\ pc' = AfterIteration(seen_dates, attempts)
     \/ /\ moved' = moved
        /\ nxt' = IF nxt < Len(NEXT_LABELS) THEN nxt + 1 ELSE 1
        /\ pc' = IF nxt < Len(NEXT_LABELS) THEN "next" ELSE "cell"
  /\ DayDone
  /\ UNCHANGED << routerVars, msg, path, browserVars, loopVars >>
  /\ UNCHANGED << service_title, per_service, seen_dates, attempts, firstSeen, today >>

\* lines 145-153: the click on an unselected calendar cell, and the break
AdvanceCell ==
  /\ pc = "cell"
  /\ ~moved
  /\ \/ /\ moved' = TRUE
        /\ pc' = AfterIteration(seen_dates, attempts)
     \/ /\ moved' = FALSE
        /\ pc' = "append"
  /\ UNCHANGED << routerVars, msg, path, browserVars, loopVars >>
  /\ UNCHANGED << service_title, per_service, seen_dates, attempts, dayVars,
                  firstSeen, nxt, today >>

\* lines 155-166: append, then back to the list (guarded); the locals of the
\* walk are dead (lines 69 and 93-95 assign them again).
AppendResult ==
  /\ pc = "append"
  /\ results' = Append(results, [title |-> service_title, days |-> per_service])
  /\ walked' = Append(walked, [clicked |-> TRUE, order |-> firstSeen])
  /\ i' = i + 1
  /\ pc' = AfterService(i + 1)
  /\ service_title' = None
  /\ per_service' = <<>>
  /\ seen_dates' = {}
  /\ attempts' = 0
  /\ firstSeen' = <<>>
  /\ moved' = FALSE
  /\ UNCHANGED << routerVars, msg, path, browserVars, count, dayVars, nxt, today >>

\* line 168
Close ==
  /\ pc = "close"
  /\ closeCalls' = closeCalls + 1
  /\ \/ /\ browser' = "closed"
        /\ pc' = "format"
     \/ /\ browser' = browser
        /\ pc' = "except"
  /\ UNCHANGED << routerVars, msg, path, pw, launches, loopVars, walkVars >>

\* lines 170-184
Format ==
  /\ pc = "format"
  /\ msg' = FormatMessage(results)
  /\ path' = "formatted"
  /\ pw' = "stopped"
  /\ pc' = "reply"
  /\ UNCHANGED << routerVars, browser, launches, closeCalls, loopVars, walkVars >>

\* lines 186-191
Except ==
  /\ pc = "except"
  /\ closeCalls' = closeCalls + 1
  /\ browser' \in {browser, "closed"}
  /\ msg' = FAILURE
  /\ path' = "failed"
  /\ pw' = "stopped"
  /\ pc' = "reply"
  /\ UNCHANGED << routerVars, launches, loopVars, walkVars >>

\* message_router line 210
RouterReply ==
  /\ pc = "reply"
  /\ replies' = Append(replies, msg)
  /\ pc' = "done"
  /\ UNCHANGED << update, text, scrapeCalls, msg, path >>
  /\ UNCHANGED << browserVars, loopVars, walkVars >>

Next ==
  \/ StartCmd
  \/ RouterReceive
  \/ ScrapeEnter
  \/ Launch
  \/ NewPage
  \/ Goto
  \/ DismissCookies
  \/ WaitBook
  \/ Scroll
  \/ CountBook
  \/ OpenService
  \/ ReadDay
  \/ AdvanceNext
  \/ AdvanceCell
  \/ AppendResult
  \/ Close
  \/ Format
  \/ Except
  \/ RouterReply

Spec == Init /\ [][Next]_vars

\* ------------------------------------------------------------- properties
\* The handler is over: it returned, or an exception left it.
HandlerOver == pc \in {"done", Unguarded}

\* scrape_standby_times has returned a message.
Returned == pc \in {"reply", "done"} /\ path \in {"no_services", "formatted", "failed"}

\* t is "haircut" up to letter case and surrounding whitespace.
TriggerInput(t) ==
  \E m \in 1..Len(t) :
    /\ m + Len(HAIRCUT) - 1 <= Len(t)
    /\ \A k \in 1..Len(t) :
         IF k < m \/ k >= m + Len(HAIRCUT)
         THEN IsSpace(t[k])
         ELSE t[k] \in {HAIRCUT[k - m + 1],
                        <<"H", "A", "I", "R", "C", "U", "T">>[k - m + 1]}

StrictlyAscending(tl) == \A k \in 1..(Len(tl) - 1) : StrLess(tl[k], tl[k + 1])

\* The text cut at its newlines.
RECURSIVE SplitFrom(_, _)
SplitFrom(s, cur) ==
  IF s = <<>> THEN <<cur>>
  ELSE IF Head(s) = "\n" THEN <<cur>> \o SplitFrom(Tail(s), <<>>)
  ELSE SplitFrom(Tail(s), Append(cur, Head(s)))

SplitLines(s) == SplitFrom(s, <<>>)

SomeSlots == \E k \in 1..Len(results) : results[k].days # <<>>

\* C1: a non-command text that is "haircut" after trimming and lower-casing
\* gets the acknowledgment, then exactly one call of scrape_standby_times, then
\* the returned string as second and last reply; any other text gets the
\* fixed prompt only and no scrape.
C1_RouterContract ==
  /\ scrapeCalls >= 1 => Len(replies) >= 1 /\ replies[1] = ACK
  /\ Len(replies) >= 2 => scrapeCalls = 1 /\ msg # None
  /\ HandlerOver /\ update.kind = "text" =>
       IF TriggerInput(update.text)
       THEN scrapeCalls = 1 /\ msg # None /\ replies = <<ACK, msg>>
       ELSE scrapeCalls = 0 /\ replies = <<PROMPT>>

\* C2: when a step of the scrape raises an exception no local guard swallows
\* (launch and page creation included), the scrape returns the generic failure
\* string after a call of browser.close, and the router sends that string.
C2_FailureReply ==
  HandlerOver /\ path \in {"failed", Unguarded} =>
    /\ msg = FAILURE
    /\ closeCalls >= 1
    /\ replies = <<ACK, FAILURE>>

\* C3: the walk of one service makes at most 2 * DAYS_TO_CHECK iterations, it
\* never holds more than DAYS_TO_CHECK date labels, and the cap of the
\* formatter drops no collected date.
C3_WalkBounded ==
  /\ attempts <= 2 * DAYS_TO_CHECK
  /\ pc = "read" => attempts < 2 * DAYS_TO_CHECK
  /\ Cardinality(seen_dates) <= DAYS_TO_CHECK
  /\ Cardinality(Keys(per_service)) <= DAYS_TO_CHECK
  /\ Len(per_service) <= DAYS_TO_CHECK
  /\ \A k \in 1..Len(results) : Capped(results[k].days) = results[k].days

\* The loop stopped at the attempts ceiling although the advance succeeded.
C3_Witness ==
  pc = "append" /\ moved /\ attempts = 2 * DAYS_TO_CHECK
    /\ Cardinality(seen_dates) < DAYS_TO_CHECK

\* C4: a scrape that ends without an exception reaching line 186 returns the
\* no-services message when the count is zero, the no-availability string
\* when the count is positive and every mapping is empty, never the failure
\* string, and neither of the two when a mapping holds a date.
C4_NothingFound ==
  pc \in {"reply", "done"} /\ path \in {"no_services", "formatted"} =>
    /\ msg # FAILURE
    /\ count = 0 <=> path = "no_services"
    /\ count = 0 => msg = NO_SERVICES
    /\ count > 0 /\ ~SomeSlots => msg = NO_TIMES
    /\ SomeSlots => msg \notin {NO_SERVICES, NO_TIMES}

\* Two Book controls were counted and neither service could be opened.
C4_Witness ==
  pc = "done" /\ path = "formatted" /\ count = 2 /\ results = <<>>
    /\ replies = <<ACK, NO_TIMES>>

\* The labels, in the order first recorded, of the services whose click worked.
RECURSIVE ClickedOrders(_)
ClickedOrders(w) ==
  IF w = <<>> THEN <<>>
  ELSE (IF Head(w).clicked THEN <<Head(w).order>> ELSE <<>>) \o ClickedOrders(Tail(w))

ExpectedBlock(title, days, order) ==
  IF order = <<>> THEN <<>>
  ELSE << <<"* ">> \o title >>
         \o [j \in 1..Len(order) |->
               <<"   - ">> \o order[j] \o <<": ">>
                 \o Join(<<", ">>, DictGet(days, order[j]))]

RECURSIVE ExpectedLines(_, _)
ExpectedLines(res, orders) ==
  IF res = <<>> THEN <<>>
  ELSE ExpectedBlock(Head(res).title, Head(res).days, Head(orders))
         \o ExpectedLines(Tail(res), Tail(orders))

C6_OnlyTwoOutcomes ==
  pc = "done" /\ update.kind = "text" /\ TriggerInput(update.text) =>
    /\ Len(replies) = 2
    /\ replies[1] = ACK
    /\ \/ replies[2][1] = HEADER[1]
       \/ replies[2] = NO_TIMES

\* C6 amended: the acknowledgment is followed by at most one further message;
\* there is none only when the launch or the page creation raised; the message
\* is the availability block, the no-availability string, the no-services
\* message or the generic failure string.
C6_FourOutcomes ==
  HandlerOver /\ update.kind = "text" /\ TriggerInput(update.text) =>
    /\ replies[1] = ACK
    /\ IF path = Unguarded
       THEN replies = <<ACK>> /\ closeCalls = 0
       ELSE /\ Len(replies) = 2
            /\ \/ replies[2][1] = HEADER[1]
               \/ replies[2] \in {NO_TIMES, NO_SERVICES, FAILURE}

\* The second reply is the no-services message.
C6_Witness ==
  pc = "done" /\ TriggerInput(update.text) /\ update.text # HAIRCUT
    /\ replies = <<ACK, NO_SERVICES>>

\* C7: one scrape launches one browser, and whenever it returns a message
\* (no services, no availability, availability, failure) browser.close has
\* been called before.
C7_BrowserClosed ==
  /\ launches <= 1
  /\ Returned => launches = 1 /\ closeCalls >= 1

\* The list sorted(set(ts)) is: ascending, without duplicate, of the same texts.
IsSortedSetOf(tl, ts) == StrictlyAscending(tl) /\ SeqToSet(tl) = SeqToSet(ts)

LabelsOf(dict) == [k \in 1..Len(dict) |-> dict[k].d]

\* One step of the advance, as C8 states it.
C8_Step ==
  \* the day just read is recorded before the first probe of the advance
  /\ pc = "next" /\ nxt = 1 /\ times # <<>> =>
       /\ date_str \in seen_dates
       /\ date_str \in Keys(per_service)
       /\ IsSortedSetOf(DictGet(per_service, date_str), times)
  \* the labelled controls are tried in their order, the cell after all of them
  /\ pc = "read" => pc' = "next" /\ nxt' = 1 /\ ~moved'
  /\ pc = "next" /\ pc' = "next" => nxt' = nxt + 1 /\ ~moved'
  /\ pc' = "cell" => pc = "next" /\ nxt = Len(NEXT_LABELS) /\ ~moved'
  \* no affordance succeeded: the loop is left at once, with what it recorded
  /\ pc = "cell" /\ ~moved' =>
       /\ pc' = "append"
       /\ per_service' = per_service
       /\ seen_dates' = seen_dates
       /\ attempts' = attempts
  /\ pc \in {"next", "cell"} /\ moved' =>
       pc' = (IF LoopCond(seen_dates, attempts) THEN "read" ELSE "append")
  /\ pc \in {"next", "cell"} => per_service' = per_service
  /\ pc = "append" =>
       results' = Append(results, [title |-> service_title, days |-> per_service])

\* C8: in an iteration the times read are recorded before any advance; the
\* labelled next controls are tried in order and the calendar cell only after
\* all of them failed; when nothing succeeds the loop exits in that iteration,
\* the recorded times are kept and the service is appended to the results.
C8_AdvanceOrder == [][C8_Step]_vars

\* The advance failed on the second visit, after two days with times.
C8_Witness ==
  pc = "append" /\ ~moved /\ attempts = 2 /\ Len(per_service) = 2

\* What holds of per_service and seen_dates at every point of a walk.
C9_State ==
  /\ Keys(per_service) = seen_dates
  /\ Len(per_service) = Cardinality(seen_dates)
  /\ \A k \in 1..Len(per_service) :
       per_service[k].t # <<>> /\ StrictlyAscending(per_service[k].t)

\* One iteration, as C9 states it.
C9_Step ==
  /\ pc = "read" /\ times' = <<>> =>
       per_service' = per_service /\ seen_dates' = seen_dates
  /\ pc = "read" /\ times' # <<>> /\ date_str' \in seen_dates =>
       /\ seen_dates' = seen_dates
       /\ LabelsOf(per_service') = LabelsOf(per_service)
       /\ \A k \in 1..Len(per_service) :
            IF per_service[k].d = date_str'
            THEN IsSortedSetOf(per_service'[k].t, times')
            ELSE per_service'[k] = per_service[k]
  \* the walk ends at a ceiling of the loop or on a failed advance
  /\ pc \in {"next", "cell"} /\ pc' = "append" =>
       \/ ~moved'
       \/ attempts >= 2 * DAYS_TO_CHECK
       \/ Cardinality(seen_dates) >= DAYS_TO_CHECK
  /\ pc \in {"next", "cell"} /\ moved' /\ Cardinality(seen_dates) < DAYS_TO_CHECK
       /\ attempts < 2 * DAYS_TO_CHECK => pc' = "read"

\* C9: the keys of per_service are seen_dates and every stored list is
\* non-empty, strictly ascending and duplicate-free; an iteration without
\* times changes neither; times under a label already seen replace the list
\* of that label and leave the size of seen_dates as it is, so a page that
\* keeps showing one label makes no progress and the walk ends only at the
\* attempts ceiling or on a failed advance.
C9_SeenDates == [](C9_State) /\ [][C9_Step]_vars

\* A page that kept showing one label: the walk ends at the attempts ceiling
\* with a single date, though every advance succeeded.
C9_Witness ==
  /\ pc = "append" /\ moved
  /\ attempts = 2 * DAYS_TO_CHECK
  /\ Len(per_service) = 1
  /\ per_service[1].d = <<"M", "o", "n", " ", "3">>

\* The walk has recorded fallback labels only: today, today + 1, ...
FallbackOnly ==
  LabelsOf(per_service) = [k \in 1..Len(per_service) |-> <<IsoDates[today + k]>>]

\* One iteration, as C10 states it.
C10_Step ==
  pc = "read" /\ date_text' = None =>
    /\ date_str' = <<IsoDates[today + Len(per_service) + 1]>>
    /\ times' = <<>> => seen_dates' = seen_dates /\ per_service' = per_service
    /\ times' # <<>> /\ FallbackOnly =>
         /\ date_str' \notin seen_dates
         /\ Cardinality(seen_dates') = Cardinality(seen_dates) + 1
         /\ SubSeq(per_service', 1, Len(per_service)) = per_service
         /\ Len(per_service') = Len(per_service) + 1
         /\ per_service'[Len(per_service')].d = date_str'
         /\ FallbackOnly'

\* C10: without a date label on the page the label is today + |seen_dates|
\* days, counted by the labels recorded and not by the advances made; in a
\* walk with fallback labels only, an iteration with times records a new label,
\* overwrites nothing and grows seen_dates by one, and a day without times
\* does not shift the label of the next day with times.
C10_FallbackLabel == [][C10_Step]_vars

\* The third fallback label is recorded on a later visit than the third.
C10_Witness ==
  /\ pc = "next" /\ nxt = 1
  /\ date_text = None
  /\ times # <<>>
  /\ FallbackOnly
  /\ Len(per_service) = 3
  /\ attempts > 4

====
